---- MODULE Spec2Model ----
(***************************************************************************)
(* A model of jenkins-bt (src/main.py): the dependency graph builder, the  *)
(* phase scheduler (get_topo_sort), the exclusion filter, and the phase    *)
(* execution engine (build_phase) with the pipeline driver (main).         *)
(***************************************************************************)
EXTENDS Integers, Sequences, FiniteSets, TLC

\* ------------------------------------------------------------------ bounds

\* The longest list of dependency pairs a configuration holds.
MaxDeps == 3
\* The longest list of statuses resolve_statuses is applied to on its own.
MaxStatuses == 3

\* --------------------------------------------------------------- constants

RETRIES_COUNT_GET_BUILD_STAGE == 20

\* The keys of config.aliases.
Aliases == {"A", "B", "C"}

\* config.aliases: alias -> job name.
JobName == ("A" :> "job-a") @@ ("B" :> "job-b") @@ ("C" :> "job-c")

\* An alias that config.aliases does not declare.
Undeclared == "X"

\* name_node_mapping.get(name) is a Node, not None.
Declared(name) == name \in Aliases

\* A dependency pair is (dependent, prerequisite).
Pairs == Aliases \X Aliases

\* Every list of at most MaxDeps dependency pairs.
DepLists == UNION {[1..n -> Pairs] : n \in 0..MaxDeps}

\* The statuses a build record can hold: the orchestrator's sentinel and
\* the ones the service reports.
ServiceStatuses == {"IN_PROGRESS", "SUCCESS", "FAILED", "ABORTED"}
Statuses == ServiceStatuses \cup {"INITIATED"}
TerminalStatuses == {"FAILED", "ABORTED", "SUCCESS"}

VARIABLES
    pc,               \* the position of the main thread
    dependencies,     \* config.dependencies
    dep_idx,          \* build_graph: index of the next pair to link
    children,         \* Node.children, by node name
    inbound,          \* Node.inbound, by node name
    start_point,      \* the --start-point argument
    layers,           \* get_topo_sort: layers
    current_queue,    \* get_topo_sort: current_queue
    next_queue,       \* get_topo_sort: next_queue
    node_idx,         \* get_topo_sort: position of `node` in current_queue
    child_idx,        \* get_topo_sort: position of `child` in node.children
    exclude_aliases,  \* the --exclude-aliases argument
    build_phases,     \* main: build_phases
    ignore_failed,    \* the --ignore-failed flag
    phase,            \* main: the (1-based) index of the phase being built
    build_items,      \* build_phase: build_items, the records of the phase
    threads,          \* submit_build_and_wait: threads, each started or done
    join_idx,         \* submit_build_and_wait: index of the thread being joined
    item_idx,         \* build_phase: position of `item` in build_items
    try_count,        \* get_build_stage_info: try_count
    statuses,         \* build_phase: statuses of the current tick
    phase_status,     \* build_phase: phase_status
    final_status,     \* main: final_status
    returns,          \* history: the value each build_phase call returned
    triggered,        \* history: the build_job calls, as (phase, job name)
    pending,          \* history: the records not terminal when the tick began
    looked_up,        \* history: the records looked up in this tick
    exhausted,        \* history: the records whose lookup ran out of retries
    escaped,          \* history: an error left the polling tick
    forced,           \* history: the records the handler set to FAILED in this tick
    remote_called     \* history: a call to the remote service has been made

graphVars == <<dependencies, dep_idx, children, inbound, start_point, layers,
               current_queue, next_queue, node_idx, child_idx,
               exclude_aliases, build_phases>>
runVars == <<phase, build_items, threads, join_idx, item_idx, try_count,
             statuses, phase_status, final_status>>
histVars == <<returns, triggered, pending, looked_up, exhausted, escaped,
              forced, remote_called>>
vars == <<pc, graphVars, ignore_failed, runVars, histVars>>

\* ------------------------------------------------------------ build_graph

\* Node.__init__: inbound 0, no children.
NewInbound == [a \in Aliases |-> 0]
NewChildren == [a \in Aliases |-> <<>>]

\* build_graph, one pair: dst_node.children.append(src_node).
LinkChild(ch, dep) == [ch EXCEPT ![dep[2]] = Append(@, dep[1])]

\* build_graph, one pair: src_node.inbound += 1.
CountInbound(inb, dep) == [inb EXCEPT ![dep[1]] = @ + 1]

\* A slip of AttributeErrorExit: the error is swallowed and main goes on
\* with the plan it has.
AttributeErrorSwallowed == "check_plan"

\* Where main is after an AttributeError on None: nothing catches it.
AttributeErrorExit == "crashed"

\* build_graph: a pair names an undeclared alias, so a node is None:
\* dst_node.children or src_node.inbound raises AttributeError.
BuildGraphRaises ==
    /\ pc = "build_graph"
    /\ dep_idx <= Len(dependencies)
    /\ ~(Declared(dependencies[dep_idx][1]) /\ Declared(dependencies[dep_idx][2]))
    /\ children' = IF Declared(dependencies[dep_idx][2])
                   THEN LinkChild(children, dependencies[dep_idx])
                   ELSE children
    /\ pc' = AttributeErrorExit
    /\ UNCHANGED <<dependencies, dep_idx, inbound, start_point, layers,
                   current_queue, next_queue, node_idx, child_idx,
                   exclude_aliases, build_phases, ignore_failed, runVars,
                   histVars>>

\* build_graph: the body of `for dep in dependencies`.
BuildGraphStep ==
    /\ pc = "build_graph"
    /\ dep_idx <= Len(dependencies)
    /\ Declared(dependencies[dep_idx][1])
    /\ Declared(dependencies[dep_idx][2])
    /\ children' = LinkChild(children, dependencies[dep_idx])
    /\ inbound' = CountInbound(inbound, dependencies[dep_idx])
    /\ dep_idx' = dep_idx + 1
    /\ UNCHANGED <<pc, dependencies, start_point, layers, current_queue,
                   next_queue, node_idx, child_idx, exclude_aliases,
                   build_phases, ignore_failed, runVars, histVars>>

\* build_graph returns; main calls get_topo_sort(graph.get(start_point)).
TopoStart ==
    /\ pc = "build_graph"
    /\ dep_idx > Len(dependencies)
    /\ \E s \in Aliases :
          /\ start_point' = s
          /\ current_queue' = <<s>>
    /\ layers' = <<>>
    /\ next_queue' = <<>>
    /\ pc' = "topo_while"
    /\ UNCHANGED <<dependencies, dep_idx, children, inbound, node_idx,
                   child_idx, exclude_aliases, build_phases, ignore_failed,
                   runVars, histVars>>

\* main calls get_topo_sort(graph.get(start_point)) with a start point that
\* is not declared: the start node is None.
TopoStartUndeclared ==
    /\ pc = "build_graph"
    /\ dep_idx > Len(dependencies)
    /\ start_point' = Undeclared
    /\ current_queue' = <<Undeclared>>
    /\ layers' = <<>>
    /\ next_queue' = <<>>
    /\ pc' = "topo_while"
    /\ UNCHANGED <<dependencies, dep_idx, children, inbound, node_idx,
                   child_idx, exclude_aliases, build_phases, ignore_failed,
                   runVars, histVars>>

\* ---------------------------------------------------------- get_topo_sort

\* `for child in node.children` with node None: AttributeError.
TopoRaises ==
    /\ pc = "topo_for"
    /\ node_idx <= Len(current_queue)
    /\ ~Declared(current_queue[node_idx])
    /\ pc' = AttributeErrorExit
    /\ UNCHANGED <<graphVars, ignore_failed, runVars, histVars>>

\* child.inbound -= 1
Decrement(inb, child) == [inb EXCEPT ![child] = @ - 1]

\* Another slip of ReachedZero: a counter one below zero enqueues too.
ReachedZeroOrBelow(inb, child) == inb[child] \in {0, -1}

\* A slip of ReachedZero: a child is queued as soon as one prerequisite is left.
ReachedZeroEarly(inb, child) == inb[child] \in {0, 1}

\* if child.inbound == 0
ReachedZero(inb, child) == inb[child] = 0

\* while len(current_queue) != 0: layers.append(current_queue[:])
TopoLayer ==
    /\ pc = "topo_while"
    /\ Len(current_queue) # 0
    /\ layers' = Append(layers, current_queue)
    /\ next_queue' = <<>>
    /\ node_idx' = 1
    /\ child_idx' = 1
    /\ pc' = "topo_for"
    /\ UNCHANGED <<dependencies, dep_idx, children, inbound, start_point,
                   current_queue, exclude_aliases, build_phases,
                   ignore_failed, runVars, histVars>>

\* for child in node.children: decrement, and queue the child at zero.
TopoChild ==
    /\ pc = "topo_for"
    /\ node_idx <= Len(current_queue)
    /\ Declared(current_queue[node_idx])
    /\ child_idx <= Len(children[current_queue[node_idx]])
    /\ LET child == children[current_queue[node_idx]][child_idx]
           inb == Decrement(inbound, child)
       IN  /\ inbound' = inb
           /\ next_queue' = IF ReachedZero(inb, child)
                            THEN Append(next_queue, child)
                            ELSE next_queue
    /\ child_idx' = child_idx + 1
    /\ UNCHANGED <<pc, dependencies, dep_idx, children, start_point, layers,
                   current_queue, node_idx, exclude_aliases, build_phases,
                   ignore_failed, runVars, histVars>>

\* for node in current_queue: the next node, once its children are done.
TopoNextNode ==
    /\ pc = "topo_for"
    /\ node_idx <= Len(current_queue)
    /\ Declared(current_queue[node_idx])
    /\ child_idx > Len(children[current_queue[node_idx]])
    /\ node_idx' = node_idx + 1
    /\ child_idx' = 1
    /\ UNCHANGED <<pc, dependencies, dep_idx, children, inbound, start_point,
                   layers, current_queue, next_queue, exclude_aliases,
                   build_phases, ignore_failed, runVars, histVars>>

\* current_queue = next_queue
TopoSwap ==
    /\ pc = "topo_for"
    /\ node_idx > Len(current_queue)
    /\ current_queue' = next_queue
    /\ pc' = "topo_while"
    /\ UNCHANGED <<dependencies, dep_idx, children, inbound, start_point,
                   layers, next_queue, node_idx, child_idx, exclude_aliases,
                   build_phases, ignore_failed, runVars, histVars>>

\* --------------------------------------------------- filter_excluded_nodes

\* The elements of a sequence.
Range(s) == {s[i] : i \in 1..Len(s)}

\* Every sequence that lists each element of the set once: the orders in
\* which a Python set of these nodes can be iterated.
Orders(S) == {s \in [1..Cardinality(S) -> S] : Range(s) = S}

\* A slip of NodesCopy: the dependents of an excluded node are removed too.
NodesCopyPruned(nodes, excl) ==
    {n \in Range(nodes) :
        /\ n \notin excl
        /\ \A k \in 1..Len(dependencies) :
              dependencies[k][1] = n => dependencies[k][2] \notin excl}

\* nodes_copy of one phase: set(nodes) minus the excluded nodes.
NodesCopy(nodes, excl) == {n \in Range(nodes) : n \notin excl}

\* A slip of KeepPhase: an emptied phase is appended all the same.
KeepPhaseAlways(nodes_copy) == TRUE

\* if nodes_copy: result.append(nodes_copy)
KeepPhase(nodes_copy) == nodes_copy # {}

\* The phases that filter_excluded_nodes keeps, as sets, in order.
RECURSIVE FilteredSets(_, _)
FilteredSets(phases, excl) ==
    IF phases = <<>> THEN <<>>
    ELSE LET copy == NodesCopy(Head(phases), excl)
             rest == FilteredSets(Tail(phases), excl)
         IN  IF KeepPhase(copy) THEN <<copy>> \o rest ELSE rest

\* Every way of listing each kept phase in one of its iteration orders.
RECURSIVE PlansOf(_)
PlansOf(sets) ==
    IF sets = <<>> THEN {<<>>}
    ELSE {<<o>> \o r : o \in Orders(Head(sets)), r \in PlansOf(Tail(sets))}

\* get_topo_sort returns layers; main filters them when exclude_aliases is
\* not empty. A filtered phase is a set: it is kept here as one of the
\* orders in which that set iterates.
Filter ==
    /\ pc = "topo_while"
    /\ Len(current_queue) = 0
    /\ \E excl \in SUBSET Aliases :
          /\ exclude_aliases' = excl
          /\ IF excl # {}
             THEN build_phases' \in PlansOf(FilteredSets(layers, excl))
             ELSE build_phases' = layers
    /\ pc' = "check_plan"
    /\ UNCHANGED <<dependencies, dep_idx, children, inbound, start_point,
                   layers, current_queue, next_queue, node_idx, child_idx,
                   ignore_failed, runVars, histVars>>


\* ------------------------------------------------------- resolve_statuses

\* statuses.count(value)
Count(sts, value) == Cardinality({i \in 1..Len(sts) : sts[i] = value})

\* A slip of resolve_statuses: the condition grouped as
\* not ignore_failed and (aborted > 0 or failed > 0).
resolve_statuses_grouped(sts, ign) ==
    IF Len(sts) # 0 /\ Count(sts, "SUCCESS") = Len(sts) THEN "SUCCESS"
    ELSE IF ~ign /\ (Count(sts, "ABORTED") > 0 \/ Count(sts, "FAILED") > 0)
         THEN "FAILED"
         ELSE "IN_PROGRESS"

\* resolve_statuses: `not ignore_failed and aborted > 0 or failed > 0`
\* groups as (not ignore_failed and aborted > 0) or failed > 0.
resolve_statuses(sts, ign) ==
    IF Len(sts) # 0 /\ Count(sts, "SUCCESS") = Len(sts) THEN "SUCCESS"
    ELSE IF (~ign /\ Count(sts, "ABORTED") > 0) \/ Count(sts, "FAILED") > 0
         THEN "FAILED"
         ELSE "IN_PROGRESS"

\* resolve_statuses applied on its own to a list of statuses.
ResolveOnly ==
    /\ pc = "resolve"
    /\ phase_status' = resolve_statuses(statuses, ignore_failed)
    /\ pc' = "resolved"
    /\ UNCHANGED <<graphVars, ignore_failed, phase, build_items, threads,
                   join_idx, item_idx, try_count, statuses, final_status,
                   histVars>>

\* ------------------------------------------------------------ main, driver

\* main: `if not build_phases: print('No job built!'); return`
NoJobBuilt ==
    /\ pc = "check_plan"
    /\ Len(build_phases) = 0
    /\ pc' = "no_job"
    /\ UNCHANGED <<graphVars, ignore_failed, runVars, histVars>>

\* main: final_status = BuildStatus.SUCCESS, and the loop over the phases.
StartDriver ==
    /\ pc = "check_plan"
    /\ Len(build_phases) # 0
    /\ final_status' = "SUCCESS"
    /\ phase' = 1
    /\ pc' = "driver_for"
    /\ UNCHANGED <<graphVars, ignore_failed, build_items, threads, join_idx,
                   item_idx, try_count, statuses, phase_status, histVars>>

\* main: `for phase in range(len(build_phases))`: build_phase is called.
StartPhase ==
    /\ pc = "driver_for"
    /\ phase <= Len(build_phases)
    /\ build_items' = <<>>
    /\ pc' = "init_items"
    /\ UNCHANGED <<graphVars, ignore_failed, phase, threads, join_idx,
                   item_idx, try_count, statuses, phase_status, final_status,
                   histVars>>

\* main: the loop is over; the final status is printed.
FinishRun ==
    /\ pc = "driver_for"
    /\ phase > Len(build_phases)
    /\ pc' = "done"
    /\ UNCHANGED <<graphVars, ignore_failed, runVars, histVars>>

\* -------------------------------------------------------- init_build_items

\* The build numbers the service answers get_next_build_num with.
BuildNumbers == {1}

\* init_build_items: a new record of the node's job.
NewBuildItem(node, num) ==
    [job_name |-> JobName[node], build_num |-> num, status |-> "INITIATED",
     stage |-> "?", duration |-> 0]

\* init_build_items: the body of `for node in nodes`.
InitItem ==
    /\ pc = "init_items"
    /\ Len(build_items) < Len(build_phases[phase])
    /\ \E num \in BuildNumbers :
          build_items' = Append(build_items,
              NewBuildItem(build_phases[phase][Len(build_items) + 1], num))
    /\ remote_called' = TRUE
    /\ UNCHANGED <<pc, graphVars, ignore_failed, phase, threads, join_idx,
                   item_idx, try_count, statuses, phase_status, final_status,
                   returns, triggered, pending, looked_up, exhausted, escaped,
                   forced>>

\* init_build_items: jenkins.get_job_info raises; nothing catches it.
InitItemRaises ==
    /\ pc = "init_items"
    /\ Len(build_items) < Len(build_phases[phase])
    /\ pc' = "crashed"
    /\ remote_called' = TRUE
    /\ UNCHANGED <<graphVars, ignore_failed, runVars, returns, triggered,
                   pending, looked_up, exhausted, escaped, forced>>

\* init_build_items returns; submit_build_and_wait begins.
InitItemsDone ==
    /\ pc = "init_items"
    /\ Len(build_items) = Len(build_phases[phase])
    /\ threads' = <<>>
    /\ pc' = "submit"
    /\ UNCHANGED <<graphVars, ignore_failed, phase, build_items, join_idx,
                   item_idx, try_count, statuses, phase_status, final_status,
                   histVars>>

\* --------------------------------------------------- submit_build_and_wait

\* threading.Thread(target=build_job, args=(jenkins, item.job_name)) and
\* thread.start() of the next item's thread.
StartThread ==
    /\ pc = "submit"
    /\ Len(threads) < Len(build_items)
    /\ threads' = Append(threads,
           [job_name |-> build_items[Len(threads) + 1].job_name,
            state |-> "started"])
    /\ UNCHANGED <<pc, graphVars, ignore_failed, phase, build_items, join_idx,
                   item_idx, try_count, statuses, phase_status, final_status,
                   histVars>>

\* A started thread runs build_job: the trigger call is made, and returns
\* or raises inside the thread.
BuildJob ==
    /\ \E i \in 1..Len(threads) :
          /\ threads[i].state = "started"
          /\ threads' = [threads EXCEPT ![i].state = "done"]
          /\ triggered' = Append(triggered, <<phase, threads[i].job_name>>)
    /\ remote_called' = TRUE
    /\ UNCHANGED <<pc, graphVars, ignore_failed, phase, build_items, join_idx,
                   item_idx, try_count, statuses, phase_status, final_status,
                   returns, pending, looked_up, exhausted, escaped, forced>>

\* Every thread is started: `for t in threads` begins.
SubmitDone ==
    /\ pc = "submit"
    /\ Len(threads) = Len(build_items)
    /\ join_idx' = 1
    /\ pc' = "join"
    /\ UNCHANGED <<graphVars, ignore_failed, phase, build_items, threads,
                   item_idx, try_count, statuses, phase_status, final_status,
                   histVars>>

\* A slip of Joined: join returns at once.
JoinedAtOnce(t) == TRUE

\* t.join() returns once the thread is done.
Joined(t) == t.state = "done"

\* `for t in threads: t.join()`
JoinThread ==
    /\ pc = "join"
    /\ join_idx <= Len(threads)
    /\ Joined(threads[join_idx])
    /\ join_idx' = join_idx + 1
    /\ UNCHANGED <<pc, graphVars, ignore_failed, phase, build_items, threads,
                   item_idx, try_count, statuses, phase_status, final_status,
                   histVars>>

\* submit_build_and_wait returns; phase_status = BuildStatus.IN_PROGRESS.
JoinDone ==
    /\ pc = "join"
    /\ join_idx > Len(threads)
    /\ phase_status' = "IN_PROGRESS"
    /\ pc' = "sleep"
    /\ UNCHANGED <<graphVars, ignore_failed, phase, build_items, threads,
                   join_idx, item_idx, try_count, statuses, final_status,
                   histVars>>

\* ------------------------------------------------- build_phase, one tick

\* The stage lists and durations the service reports.
StageLists == {<<>>, <<"checkout", "build">>}
DurationsMillis == {1000, 4000}

\* What get_build_stages returns when it is not absent.
StageInfos ==
    [status : ServiceStatuses, stages : StageLists, durationMillis : DurationsMillis]

\* update_build_item_from_stage_info; the durations reported are whole
\* seconds, so the division is exact.
update_build_item_from_stage_info(item, stage_info) ==
    [item EXCEPT
        !.status = stage_info.status,
        !.duration = stage_info.durationMillis \div 1000,
        !.stage = IF Len(stage_info.stages) > 0
                  THEN stage_info.stages[Len(stage_info.stages)]
                  ELSE @]

\* `except Exception`: IOError, KeyError and the client's errors are all
\* subclasses of Exception.
Exceptions == {"IOError", "KeyError", "JenkinsException"}

\* A slip of Caught: a handler for the client's errors only.
CaughtClientErrorOnly(exc) == exc = "JenkinsException"

Caught(exc) == exc \in Exceptions

\* A slip of NeedsLookup: every record is looked up in every tick.
NeedsLookupAlways(item) == TRUE

\* item.status not in ['FAILED', 'ABORTED', 'SUCCESS']
NeedsLookup(item) == item.status \notin TerminalStatuses

\* The records that a tick has to look up.
NonTerminal(items) == {i \in 1..Len(items) : NeedsLookup(items[i])}

\* time.sleep(INTERVAL_SECONDS_REFRESH_BUILD); statuses = []
Sleep ==
    /\ pc = "sleep"
    /\ statuses' = <<>>
    /\ item_idx' = 1
    /\ try_count' = 0
    /\ pending' = NonTerminal(build_items)
    /\ looked_up' = {}
    /\ exhausted' = {}
    /\ forced' = {}
    /\ pc' = "poll"
    /\ UNCHANGED <<graphVars, ignore_failed, phase, build_items, threads,
                   join_idx, phase_status, final_status, returns, triggered,
                   escaped, remote_called>>

\* A record already terminal: only statuses.append(item.status).
PollTerminal ==
    /\ pc = "poll"
    /\ item_idx <= Len(build_items)
    /\ ~NeedsLookup(build_items[item_idx])
    /\ statuses' = Append(statuses, build_items[item_idx].status)
    /\ item_idx' = item_idx + 1
    /\ UNCHANGED <<pc, graphVars, ignore_failed, phase, build_items, threads,
                   join_idx, try_count, phase_status, final_status, histVars>>

\* get_build_stage_info may call get_build_stages once more.
CanTry == try_count < RETRIES_COUNT_GET_BUILD_STAGE

\* The record of the tick's current item is being looked up.
InLookup ==
    /\ pc = "poll"
    /\ item_idx <= Len(build_items)
    /\ NeedsLookup(build_items[item_idx])

\* An exception raised in the try block: the handler sets the record to
\* FAILED and the loop goes on to statuses.append(item.status).
Handle(exc) ==
    IF Caught(exc)
    THEN /\ build_items' = [build_items EXCEPT ![item_idx].status = "FAILED"]
         /\ statuses' = Append(statuses, "FAILED")
         /\ item_idx' = item_idx + 1
         /\ try_count' = 0
         /\ forced' = forced \cup {item_idx}
         /\ UNCHANGED <<pc, escaped>>
    ELSE /\ pc' = "crashed"
         /\ escaped' = TRUE
         /\ UNCHANGED <<build_items, statuses, item_idx, try_count, forced>>

\* get_build_stages returns absent data: try_count += 1, then the sleep.
LookupAbsent ==
    /\ InLookup
    /\ CanTry
    /\ try_count' = try_count + 1
    /\ looked_up' = looked_up \cup {item_idx}
    /\ remote_called' = TRUE
    /\ UNCHANGED <<pc, graphVars, ignore_failed, phase, build_items, threads,
                   join_idx, item_idx, statuses, phase_status, final_status,
                   returns, triggered, pending, exhausted, escaped, forced>>

\* get_build_stages returns data: the record is updated from it.
LookupInfo ==
    /\ InLookup
    /\ CanTry
    /\ \E stage_info \in StageInfos :
          LET item == update_build_item_from_stage_info(build_items[item_idx], stage_info)
          IN  /\ build_items' = [build_items EXCEPT ![item_idx] = item]
              /\ statuses' = Append(statuses, item.status)
    /\ item_idx' = item_idx + 1
    /\ try_count' = 0
    /\ looked_up' = looked_up \cup {item_idx}
    /\ remote_called' = TRUE
    /\ UNCHANGED <<pc, graphVars, ignore_failed, phase, threads, join_idx,
                   phase_status, final_status, returns, triggered, pending,
                   exhausted, escaped, forced>>

\* get_build_stages raises, or returns data without a key that
\* update_build_item_from_stage_info reads.
LookupRaises ==
    /\ InLookup
    /\ CanTry
    /\ \E exc \in {"JenkinsException", "KeyError"} : Handle(exc)
    /\ looked_up' = looked_up \cup {item_idx}
    /\ remote_called' = TRUE
    /\ UNCHANGED <<graphVars, ignore_failed, phase, threads, join_idx,
                   phase_status, final_status, returns, triggered, pending,
                   exhausted>>

\* The retries are used up with no data: get_build_stage_info raises IOError.
LookupExhausted ==
    /\ InLookup
    /\ ~CanTry
    /\ Handle("IOError")
    /\ exhausted' = exhausted \cup {item_idx}
    /\ UNCHANGED <<graphVars, ignore_failed, phase, threads, join_idx,
                   phase_status, final_status, returns, triggered, pending,
                   looked_up, remote_called>>

\* The loop's exit test: phase_status in [FAILED, SUCCESS]
LoopExits(status) == status \in {"FAILED", "SUCCESS"}

\* The tick's records are all visited: the verdict, and the break or the
\* next tick.
Verdict ==
    /\ pc = "poll"
    /\ item_idx > Len(build_items)
    /\ LET verdict == resolve_statuses(statuses, ignore_failed)
       IN  /\ phase_status' = verdict
           /\ pc' = IF LoopExits(verdict) THEN "phase_return" ELSE "sleep"
    /\ UNCHANGED <<graphVars, ignore_failed, phase, build_items, threads,
                   join_idx, item_idx, try_count, statuses, final_status,
                   histVars>>

\* A slip of BuildPhaseReturn: the loop's last verdict is returned as it is.
BuildPhaseReturnsVerdict(ign, status) == status

\* build_phase's return value.
BuildPhaseReturn(ign, status) ==
    IF ~ign /\ status = "FAILED" THEN "FAILED" ELSE "IN_PROGRESS"

\* A slip of DriverBreaks: the loop never breaks.
DriverNeverBreaks(returned) == FALSE

\* main: `if phase_status == BuildStatus.FAILED`
DriverBreaks(returned) == returned = "FAILED"

\* build_phase returns to main, which breaks or goes to the next phase.
PhaseReturn ==
    /\ pc = "phase_return"
    /\ LET returned == BuildPhaseReturn(ignore_failed, phase_status)
       IN  /\ returns' = Append(returns, returned)
           /\ IF DriverBreaks(returned)
              THEN /\ final_status' = "FAILED"
                   /\ pc' = "done"
                   /\ UNCHANGED phase
              ELSE /\ phase' = phase + 1
                   /\ pc' = "driver_for"
                   /\ UNCHANGED final_status
    /\ UNCHANGED <<graphVars, ignore_failed, build_items, threads, join_idx,
                   item_idx, try_count, statuses, phase_status, triggered,
                   pending, looked_up, exhausted, escaped, forced,
                   remote_called>>

\* ------------------------------------------------- the graph, as configured

\* The dependency pairs of the configuration.
Edges == Range(dependencies)

\* The dependents of a prerequisite.
Dependents(p) == {e[1] : e \in {d \in Edges : d[2] = p}}

\* The prerequisites of a dependent.
Prerequisites(d) == {e[2] : e \in {x \in Edges : x[1] = d}}

\* The nodes reached from a set of nodes along prerequisite-to-dependent
\* links, the set included.
RECURSIVE ReachFrom(_)
ReachFrom(S) ==
    LET N == S \cup UNION {Dependents(n) : n \in S}
    IN  IF N = S THEN S ELSE ReachFrom(N)

Reachable == ReachFrom({start_point})

\* n lies on a dependency cycle.
OnCycle(n) == n \in ReachFrom(Dependents(n))

NoCycleReachable == \A n \in Reachable : ~OnCycle(n)

\* get_topo_sort has returned its layers.
TopoReturned ==
    \/ pc = "topo_while" /\ Len(current_queue) = 0
    \/ pc \notin {"build_graph", "topo_while", "topo_for", "resolve", "resolved",
                  "crashed"}
    \/ pc = "crashed" /\ phase > 0

\* The (1-based) indices of the layers a node is in.
PhasesOf(n) == {i \in 1..Len(layers) : n \in Range(layers[i])}

\* How many times a node is listed in the layers.
Occurrences(n) ==
    Cardinality({p \in (1..Len(layers)) \X (1..Cardinality(Aliases) + 1) :
                    p[2] <= Len(layers[p[1]]) /\ layers[p[1]][p[2]] = n})

\* ------------------------------------------------------------------ claims

\* C1: with no cycle reachable from the start alias, every alias reachable
\* from start is in exactly one phase of get_topo_sort(start).
C1_EveryReachableInOnePhase ==
    (TopoReturned /\ NoCycleReachable)
        => \A n \in Reachable : Occurrences(n) = 1

\* C2: with no cycle reachable from the start alias, for every dependency
\* pair (dependent, prerequisite) whose endpoints are both in the returned
\* phases, the prerequisite's phase index is strictly less than the
\* dependent's.
C2_PrerequisiteEarlier ==
    (TopoReturned /\ NoCycleReachable)
        => \A e \in Edges : \A i \in PhasesOf(e[1]) : \A j \in PhasesOf(e[2]) : j < i

\* C2 witness: an acyclic plan in which one dependent has two different
\* prerequisites placed in two different phases, both before it.
C2_Witness ==
    /\ TopoReturned
    /\ NoCycleReachable
    /\ \E d \in Aliases : \E p, q \in Prerequisites(d) :
          /\ PhasesOf(d) # {}
          /\ PhasesOf(p) # {}
          /\ PhasesOf(q) # {}
          /\ PhasesOf(p) # PhasesOf(q)

\* C6: no node is listed twice in the plan get_topo_sort returns, whatever
\* the graph (cycles and duplicate pairs included) and the start node.
C6_NodeAtMostOnce ==
    TopoReturned => \A n \in Aliases : Occurrences(n) <= 1

\* C7: a node that is reachable from start and lies on a dependency cycle
\* is in no phase get_topo_sort returns, the start node included.
C7_CycleNodesExcluded ==
    TopoReturned => \A n \in Reachable : OnCycle(n) => PhasesOf(n) = {}

\* C8: Node.inbound is never negative, during graph construction and
\* layering.
C8_InboundNonNegative ==
    \A n \in Aliases : inbound[n] >= 0

\* main has its plan: the layers, filtered when aliases are excluded.
PlanReady == TopoReturned /\ pc # "topo_while"

\* Every node of layer i is excluded: the filter drops the phase.
Emptied(i) == Range(layers[i]) \subseteq exclude_aliases

\* Where layer i ends up once the emptied phases before it are dropped.
NewIndex(i) == i - Cardinality({j \in 1..(i - 1) : Emptied(j)})

\* C9 as stated: the filtered plan holds no excluded node, and every other
\* node at the phase index it had in the layers.
C9_SamePhaseIndex ==
    PlanReady =>
        /\ \A i \in 1..Len(build_phases) : Range(build_phases[i]) \cap exclude_aliases = {}
        /\ \A n \in Aliases \ exclude_aliases : \A i \in 1..Len(layers) :
              n \in Range(layers[i]) <=>
                  (i <= Len(build_phases) /\ n \in Range(build_phases[i]))

\* C9 as amended: the filtered plan is the layers, each without its excluded
\* nodes, with the emptied layers dropped: a kept node of layer i is at
\* index i minus the number of emptied layers before i.
C9_IndexShiftsByEmptied ==
    PlanReady =>
        /\ Len(build_phases) = Cardinality({i \in 1..Len(layers) : ~Emptied(i)})
        /\ \A i \in 1..Len(layers) :
              ~Emptied(i) =>
                  /\ NewIndex(i) <= Len(build_phases)
                  /\ Range(build_phases[NewIndex(i)]) = Range(layers[i]) \ exclude_aliases
                  /\ Len(build_phases[NewIndex(i)]) = Cardinality(Range(layers[i]) \ exclude_aliases)

\* C9 witness: a phase emptied by the exclusion, with a kept node in a
\* later phase, now one index lower.
C9_Witness ==
    /\ PlanReady
    /\ \E i \in 1..Len(layers) : \E k \in 1..Len(layers) :
          /\ i < k
          /\ Emptied(i)
          /\ ~Emptied(k)
          /\ NewIndex(k) < k

\* ------------------------------------------------- claims on the phase run

\* The verdict as C3 states it.
StatedVerdict(sts, ign) ==
    IF \A i \in 1..Len(sts) : sts[i] = "SUCCESS" THEN "SUCCESS"
    ELSE IF (\E i \in 1..Len(sts) : sts[i] = "FAILED")
            \/ (~ign /\ \E i \in 1..Len(sts) : sts[i] = "ABORTED")
         THEN "FAILED"
         ELSE "IN_PROGRESS"

\* C3 as stated: for any list of statuses and either flag the verdict is
\* SUCCESS iff every status is SUCCESS; otherwise FAILED iff some status is
\* FAILED, or the flag is off and some status is ABORTED; otherwise
\* IN_PROGRESS.
C3_VerdictAsStated ==
    pc = "resolved" => phase_status = StatedVerdict(statuses, ignore_failed)

\* C3 as amended: the stated verdict for every list that is not empty, and
\* IN_PROGRESS for the empty list.
C3_VerdictNonEmpty ==
    pc = "resolved" =>
        phase_status = IF Len(statuses) = 0 THEN "IN_PROGRESS"
                       ELSE StatedVerdict(statuses, ignore_failed)

\* C3 witness: with the flag on, a list with ABORTED and SUCCESS and no
\* FAILED resolves to IN_PROGRESS.
C3_Witness ==
    /\ pc = "resolved"
    /\ ignore_failed
    /\ Count(statuses, "ABORTED") > 0
    /\ Count(statuses, "SUCCESS") > 0
    /\ Count(statuses, "FAILED") = 0
    /\ phase_status = "IN_PROGRESS"

\* Every record of the phase holds a terminal status.
AllTerminal == \A i \in 1..Len(build_items) : ~NeedsLookup(build_items[i])

\* C4: with ignore-failed on, once every record of the phase is terminal and
\* one of them is FAILED or ABORTED, build_phase eventually returns and the
\* driver goes on to the next phase.
C4_IgnoreFailedProceeds ==
    (/\ ignore_failed
     /\ pc \in {"sleep", "poll"}
     /\ AllTerminal
     /\ \E i \in 1..Len(build_items) : build_items[i].status \in {"FAILED", "ABORTED"})
        ~> (pc \in {"driver_for", "done"})

\* The job names of phase p of the plan.
JobsOf(p) == {JobName[n] : n \in Range(build_phases[p])}

\* C5: in fail-fast mode the phases run in plan order; once build_phase has
\* returned FAILED no job of a later phase is triggered and the final
\* status is FAILED; when no phase returned FAILED and the run is done,
\* every phase was run and the final status is SUCCESS.
C5_FailFast ==
    ~ignore_failed =>
        /\ \A k \in 1..Len(triggered) :
              /\ triggered[k][1] = Len(returns) + 1 \/ triggered[k][1] <= Len(returns)
              /\ triggered[k][2] \in JobsOf(triggered[k][1])
              /\ \A m \in 1..k : triggered[m][1] <= triggered[k][1]
        /\ \A i \in 1..Len(returns) :
              returns[i] = "FAILED" =>
                  /\ i = Len(returns)
                  /\ pc = "done"
                  /\ final_status = "FAILED"
                  /\ \A k \in 1..Len(triggered) : triggered[k][1] <= i
        /\ (pc = "done" /\ \A i \in 1..Len(returns) : returns[i] # "FAILED") =>
              /\ Len(returns) = Len(build_phases)
              /\ final_status = "SUCCESS"
              /\ \A p \in 1..Len(build_phases) : \A j \in JobsOf(p) :
                    \E k \in 1..Len(triggered) : triggered[k] = <<p, j>>

\* C5 witness: fail-fast, a plan of three phases, the second returned FAILED
\* and the run is done.
C5_Witness ==
    /\ ~ignore_failed
    /\ pc = "done"
    /\ Len(build_phases) = 3
    /\ Len(returns) = 2
    /\ returns[2] = "FAILED"

\* C10: when a record's lookup runs out of retries in a tick, the record is
\* set to FAILED, no error leaves the tick, and by the end of the tick every
\* record that was not terminal when it began has been looked up and has
\* its status in the tick's list.
C10_ExhaustedFailsAlone ==
    /\ ~escaped
    /\ pc = "poll" =>
          /\ \A i \in exhausted :
                /\ build_items[i].status = "FAILED"
                /\ i <= Len(statuses)
                /\ statuses[i] = "FAILED"
          /\ (exhausted # {} /\ item_idx > Len(build_items)) =>
                /\ pending \subseteq looked_up
                /\ Len(statuses) = Len(build_items)

\* C10 witness: a tick that ends with one record out of retries and a
\* sibling after it looked up in the same tick and updated by the service.
C10_Witness ==
    /\ pc = "poll"
    /\ item_idx > Len(build_items)
    /\ \E i \in exhausted : \E j \in (pending \cap looked_up) \ exhausted :
          /\ i < j
          /\ build_items[j].status = "IN_PROGRESS"


\* C11: a record is set to FAILED by the tick's handler only when its
\* lookup has used up the retry bound, whether the service answered with
\* absent data or the lookup call raised.
C11_DegradedOnlyWhenExhausted ==
    pc = "poll" => forced \subseteq exhausted

\* A dependency pair or the start point names an undeclared alias.
ReferencesUndeclared ==
    \/ \E i \in 1..Len(dependencies) :
          ~Declared(dependencies[i][1]) \/ ~Declared(dependencies[i][2])
    \/ start_point = Undeclared

\* C12: when a dependency pair or the start point names an undeclared
\* alias, no call to the remote service is made, no job is triggered, main
\* never gets to its plan, and the run can only stop in the error.
C12_UndeclaredFailsBeforeCalls ==
    ReferencesUndeclared =>
        /\ ~remote_called
        /\ triggered = <<>>
        /\ build_items = <<>>
        /\ pc \in {"build_graph", "topo_while", "topo_for", "crashed"}

\* C12 witness: the run has stopped in the error on a list whose second
\* pair names an undeclared alias, with no remote call made.
C12_Witness ==
    /\ pc = "crashed"
    /\ ReferencesUndeclared
    /\ dep_idx = 2
    /\ ~remote_called

\* C13: every run eventually prints the final verdict, whatever the plan
\* and whatever the service answers.
C13_VerdictEventuallyPrinted ==
    <>(pc = "done" /\ final_status \in {"SUCCESS", "FAILED"})

\* C14: when the driver is about to start a phase after the first, every
\* record of the phase before it holds a terminal status, in both modes.
C14_PreviousPhaseTerminal ==
    (pc = "driver_for" /\ phase > 1 /\ phase <= Len(build_phases))
        => AllTerminal

\* C15: in either mode, once every record of the phase holds a terminal
\* status the polling loop eventually exits and build_phase returns.
C15_LoopExitsWhenAllTerminal ==
    (pc \in {"sleep", "poll"} /\ AllTerminal) ~> (pc = "phase_return")

\* The layers are at most one more than the nodes, and none is empty.
LayersBounded ==
    /\ Len(layers) <= Cardinality(Aliases) + 1
    /\ \A i \in 1..Len(layers) : Len(layers[i]) > 0

\* C16: on every list of dependency pairs and every start node, cycles,
\* self-loops and repeated pairs included, get_topo_sort returns, and what
\* it returns is at most (number of nodes + 1) layers, none of them empty.
C16_TopoTerminatesBounded ==
    /\ <>TopoReturned
    /\ [](TopoReturned => LayersBounded)

\* C16 witness: get_topo_sort has returned one layer more than there are
\* nodes, on a graph with a cycle through the start node.
C16_Witness ==
    /\ TopoReturned
    /\ Len(layers) = Cardinality(Aliases) + 1
    /\ OnCycle(start_point)

\* A step inside a phase leaves every terminal record as it is and looks
\* none of them up.
TerminalKept ==
    pc \in {"sleep", "poll", "phase_return"} =>
        \A i \in 1..Len(build_items) :
            build_items[i].status \in TerminalStatuses =>
                /\ build_items'[i] = build_items[i]
                /\ (i \in looked_up' => i \in looked_up)

\* C17: from the step a record holds SUCCESS, FAILED or ABORTED to the end
\* of its phase, no step looks the record up and no step changes its
\* status, stage or duration.
C17_TerminalFrozen ==
    [][TerminalKept]_vars

\* C17 witness: a tick is over in which a record that was terminal when the
\* tick began was passed over, and a record after it was looked up.
C17_Witness ==
    /\ pc = "poll"
    /\ item_idx > Len(build_items)
    /\ \E i \in 1..Len(build_items) : \E j \in looked_up :
          /\ i < j
          /\ i \notin pending
          /\ build_items[i].status \in TerminalStatuses

\* How many build_job calls were made for job j in phase p.
Triggers(p, j) ==
    Cardinality({k \in 1..Len(triggered) : triggered[k] = <<p, j>>})

\* C18: within a phase, no build_job call is made before every record of
\* the phase is created with status INITIATED; no job is triggered twice,
\* and once the triggering is over each job of the phase was triggered
\* once; the ticks, which make the status lookups, run only when every
\* trigger thread is done.
C18_PhaseCallsOrdered ==
    /\ \A p \in 1..Len(build_phases) : \A j \in JobsOf(p) : Triggers(p, j) <= 1
    /\ \A p \in 1..Len(returns) : \A j \in JobsOf(p) : Triggers(p, j) = 1
    /\ pc = "init_items" =>
          /\ \A k \in 1..Len(triggered) : triggered[k][1] < phase
          /\ \A i \in 1..Len(build_items) : build_items[i].status = "INITIATED"
    /\ pc \in {"submit", "join"} =>
          /\ Len(build_items) = Len(build_phases[phase])
          /\ \A i \in 1..Len(build_items) : build_items[i].status = "INITIATED"
    /\ pc \in {"sleep", "poll", "phase_return"} =>
          /\ \A i \in 1..Len(threads) : threads[i].state = "done"
          /\ \A j \in JobsOf(phase) : Triggers(phase, j) = 1

\* C18 witness: a tick of a two-job phase has made a lookup, after the two
\* trigger calls were made in the order opposite to the records'.
C18_Witness ==
    /\ pc = "poll"
    /\ looked_up # {}
    /\ Len(build_items) = 2
    /\ \E k \in 1..Len(triggered) : \E m \in (k + 1)..Len(triggered) :
          /\ triggered[k] = <<phase, build_items[2].job_name>>
          /\ triggered[m] = <<phase, build_items[1].job_name>>

\* C19: the value build_phase has just returned is FAILED exactly when
\* ignore-failed is off and the loop's last verdict is FAILED; every value
\* it returns is FAILED or IN_PROGRESS, never SUCCESS.
C19_ReturnValue ==
    /\ \A k \in 1..Len(returns) : returns[k] \in {"FAILED", "IN_PROGRESS"}
    /\ (pc \in {"driver_for", "done"} /\ Len(returns) > 0) =>
          (returns[Len(returns)] = "FAILED"
              <=> (~ignore_failed /\ phase_status = "FAILED"))

\* C19 witness: under ignore-failed a phase whose last verdict is FAILED has
\* returned IN_PROGRESS, after a phase before it returned IN_PROGRESS too.
C19_Witness ==
    /\ pc = "driver_for"
    /\ ignore_failed
    /\ phase_status = "FAILED"
    /\ Len(returns) = 2
    /\ returns[2] = "IN_PROGRESS"

\* The nodes listed in a plan.
NodesOf(plan) == UNION {Range(plan[i]) : i \in 1..Len(plan)}

\* The indices of the phases of a plan that list node n.
PhasesIn(plan, n) == {i \in 1..Len(plan) : n \in Range(plan[i])}

\* C20: the plan that filter_excluded_nodes returns has no empty phase and
\* lists exactly the nodes of the layers that are not excluded, each as
\* many times as the layers do and once per phase; two kept nodes of one
\* layer are in one phase of the result, a kept node of an earlier layer
\* than another's is in an earlier phase of the result, and the kept
\* dependents of an excluded node are still listed.
C20_FilterKeepsOrder ==
    (PlanReady /\ exclude_aliases # {}) =>
        /\ \A k \in 1..Len(build_phases) : Len(build_phases[k]) > 0
        /\ NodesOf(build_phases) = NodesOf(layers) \ exclude_aliases
        /\ \A n \in NodesOf(build_phases) :
              /\ Cardinality(PhasesIn(build_phases, n)) = Cardinality(PhasesIn(layers, n))
              /\ \A k \in PhasesIn(build_phases, n) :
                    Cardinality({x \in 1..Len(build_phases[k]) : build_phases[k][x] = n}) = 1
        /\ \A n \in Aliases \ exclude_aliases : \A m \in Aliases \ exclude_aliases :
              \A i \in PhasesIn(layers, n) : \A j \in PhasesIn(layers, m) :
                  /\ i = j => \E k \in 1..Len(build_phases) :
                                  {n, m} \subseteq Range(build_phases[k])
                  /\ i < j => \E k \in PhasesIn(build_phases, n) :
                                  \E l \in PhasesIn(build_phases, m) : k < l
        /\ \A x \in exclude_aliases \cap NodesOf(layers) :
              (Dependents(x) \cap NodesOf(layers)) \ exclude_aliases
                  \subseteq NodesOf(build_phases)

\* C20 witness: a node of the layers is excluded, a dependent of it is kept
\* in a phase of two nodes, and a kept node of an earlier layer is in an
\* earlier phase.
C20_Witness ==
    /\ PlanReady
    /\ \E x \in exclude_aliases \cap NodesOf(layers) :
          \E c \in Dependents(x) \ exclude_aliases :
              \E k \in PhasesIn(build_phases, c) :
                  /\ Len(build_phases[k]) = 2
                  /\ k > 1

\* --------------------------------------------------------- specifications

\* The state main starts in: nothing built yet, apart from the arguments.
InitWith(position, ign, sts) ==
    /\ pc = position
    /\ dep_idx = 1
    /\ children = NewChildren
    /\ inbound = NewInbound
    /\ start_point = ""
    /\ layers = <<>>
    /\ current_queue = <<>>
    /\ next_queue = <<>>
    /\ node_idx = 1
    /\ child_idx = 1
    /\ exclude_aliases = {}
    /\ build_phases = <<>>
    /\ ignore_failed = ign
    /\ phase = 0
    /\ build_items = <<>>
    /\ threads = <<>>
    /\ join_idx = 1
    /\ item_idx = 1
    /\ try_count = 0
    /\ statuses = sts
    /\ phase_status = "IN_PROGRESS"
    /\ final_status = "SUCCESS"
    /\ returns = <<>>
    /\ triggered = <<>>
    /\ pending = {}
    /\ looked_up = {}
    /\ exhausted = {}
    /\ escaped = FALSE
    /\ forced = {}
    /\ remote_called = FALSE

InitGraph ==
    /\ dependencies \in DepLists
    /\ InitWith("build_graph", FALSE, <<>>)

GraphNext ==
    \/ BuildGraphStep
    \/ TopoStart
    \/ TopoLayer
    \/ TopoChild
    \/ TopoNextNode
    \/ TopoSwap
    \/ Filter

\* Graph construction, layering and the exclusion filter, over every list
\* of dependency pairs, every start point and every exclusion set.
GraphSpec == InitGraph /\ [][GraphNext]_vars

\* The same, with the interpreter always taking the next step.
FairGraphSpec == GraphSpec /\ WF_vars(GraphNext)

\* The dependency lists the pipeline is run on: the fan-out of two jobs
\* after one, the chain of three, the fan-out with a pair that puts a phase
\* after the two-job phase, and two lists that name an undeclared alias, as a
\* dependent and as a prerequisite.
RunDeps ==
    { << <<"B", "A">>, <<"C", "A">> >>,
      << <<"B", "A">>, <<"C", "B">> >>,
      << <<"B", "A">>, <<"C", "A">>, <<"A", "B">> >>,
      << <<"B", "A">>, <<Undeclared, "A">> >>,
      << <<"B", Undeclared>> >> }

InitRun ==
    /\ dependencies \in RunDeps
    /\ \E ign \in BOOLEAN : InitWith("build_graph", ign, <<>>)

RunNext ==
    \/ GraphNext
    \/ BuildGraphRaises
    \/ TopoStartUndeclared
    \/ TopoRaises
    \/ NoJobBuilt
    \/ StartDriver
    \/ StartPhase
    \/ FinishRun
    \/ InitItem
    \/ InitItemRaises
    \/ InitItemsDone
    \/ StartThread
    \/ BuildJob
    \/ SubmitDone
    \/ JoinThread
    \/ JoinDone
    \/ Sleep
    \/ PollTerminal
    \/ LookupAbsent
    \/ LookupInfo
    \/ LookupRaises
    \/ LookupExhausted
    \/ Verdict
    \/ PhaseReturn

\* The whole run of main, on the dependency lists of RunDeps.
RunSpec == InitRun /\ [][RunNext]_vars

\* The main thread and the trigger threads keep running.
FairRunSpec == RunSpec /\ WF_vars(RunNext)

\* Every list of at most MaxStatuses statuses.
StatusLists == UNION {[1..n -> Statuses] : n \in 0..MaxStatuses}

InitResolve ==
    /\ dependencies = <<>>
    /\ \E ign \in BOOLEAN : \E sts \in StatusLists : InitWith("resolve", ign, sts)

\* resolve_statuses on every list of statuses and either flag.
ResolveSpec == InitResolve /\ [][ResolveOnly]_vars

====
